---- MODULE Spec2Model ----
(***************************************************************************)
(* A model of src/script.js: the timing utilities (debounce, throttle) and *)
(* the widget controllers built on them (navigation menu, lazy image       *)
(* loader, form validator, FAQ accordion, back-to-top control).            *)
(*                                                                         *)
(* Every controller owns its own state and no controller reads another's,  *)
(* so each is given its own specification over its own variables; the      *)
(* variables of the other controllers stay at their initial values.        *)
(*                                                                         *)
(* Time.  A pending timer is the number of milliseconds left before it is  *)
(* due.  Tick lets one millisecond pass.  The event loop runs callbacks in  *)
(* the order in which they become ready (spec.md section 5, "the           *)
(* platform's natural event ordering"): a timer that is due runs before    *)
(* any event that arrives later, so no event handler runs and no time      *)
(* passes while a timer is due.                                            *)
(***************************************************************************)
EXTENDS Integers, Sequences, FiniteSets, TLC

\* ------------------------------------------------------------------------
\* Bounds of the model
\* ------------------------------------------------------------------------
MaxLimit == 4      \* throttle(): intervals 1..MaxLimit are tried
MaxWait == 4       \* debounce(): waits 1..MaxWait are tried
MaxCalls == 4      \* calls counted per burst
MaxArg == 2        \* a call's argument is one of 1..MaxArg
NumFaq == 3        \* .faq-item elements on the page
MaxMenuLinks == 2  \* .mobile-link elements inside the menu panel: 0..MaxMenuLinks
MaxTraps == 3      \* keydown listeners setFocusTrap may add to the panel
MaxLen == 5        \* length of an email or text field's value
MaxTelLen == 4     \* length of a tel field's value
NumFields == 2     \* input, select and textarea elements of the form
MaxPending == 2    \* handleSubmit calls waiting for their submission at once
MaxBanners == 2    \* success and error banners on the page at once
NumImages == 2     \* img[loading="lazy"] elements on the page
MaxQueue == 3      \* entries the observer queues before its callback runs
MaxNavLinks == 2   \* .nav-link and .mobile-link elements on the page: 0..MaxNavLinks
NumAnimated == 2   \* [data-animate] elements on the page
MaxFocusable == 3  \* focusable elements inside a trapped container: 0..MaxFocusable
MaxShown == 4      \* banners on the page at once, where only banners are specified
MaxPosition == 3   \* scroll positions (element tops, page offsets): 0..MaxPosition
MaxDuration == 4   \* smoothScrollTo's duration, in clock units: 1..MaxDuration
MaxFrameGap == 3   \* clock units between two animation frames: 1..MaxFrameGap

\* ------------------------------------------------------------------------
\* CONFIG (src/script.js lines 13-20)
\* ------------------------------------------------------------------------
THROTTLE_DELAY == 16
DEBOUNCE_DELAY == 150
DESKTOP_WIDTH == 1024   \* line 217: window.innerWidth >= 1024
BACK_TO_TOP_THRESHOLD == 300

VARIABLES
    \* throttle(func, limit): one throttled function and its call history
    thrLimit,      \* limit
    thr,           \* [inThrottle, timers]: the closure's flag, pending setTimeouts
    thrAge,        \* ms since the first call of the current burst (capped at limit)
    thrCalls,      \* calls made in the current burst
    thrExec,       \* executions of func since the current burst began
    thrRanWith,    \* the argument func last ran with (0: it never ran)
    thrFirstArg,   \* the argument of the current burst's first call (0: no call yet)
    \* debounce(func, wait, immediate): one debounced function and its history
    debWait,       \* wait
    debImmediate,  \* immediate
    deb,           \* [timeout, timers]: the closure's timeout, pending setTimeouts
    debSince,      \* ms since the last call (capped at wait)
    debCalls,      \* calls made in the current burst
    debExec,       \* executions of func since the current burst began
    debLastArg,    \* the argument of the last call (0: no call yet)
    debRanWith,    \* the argument func last ran with (0: it never ran)
    debFirstArg,   \* the argument of the current burst's first call (0: no call yet)
    \* BackToTop
    scrollY,       \* window.pageYOffset
    bttVisible,    \* the button carries the class 'visible'
    bttThrottle,   \* the throttled scroll listener's closure
    \* FAQ
    faqItems,      \* per item: the question's aria-expanded, the answer's class 'active'
    faqLast,       \* the item activated last (0: none yet)
    faqLastWasOpen, \* whether that item's aria-expanded was 'true' when it was activated
    faqLastAgreed, \* whether every item's two markers agreed when it was activated
    \* Navigation
    navHasMenu,    \* the page has the panel #mobile-menu and the button #mobile-menu-btn
    navMenuLinks,  \* how many .mobile-link elements the panel #mobile-menu holds
    nav,           \* the controller's flag and the DOM state it writes (see NavNew)
    navOp,         \* the last openMobileMenu/closeMobileMenu call and the state it returned with
    innerWidth,    \* window.innerWidth
    navResize,     \* the debounced resize listener's closure
    navEv,         \* the event handled last: its kind, isMenuOpen before it, what its handler called
    \* validateField on one field
    valField,      \* the field: type, required, value and its error display
    valResult,     \* whether validateField ran, what it returned, the message it chose
    \* FormValidator on one form
    formFields,    \* the form's fields in document order
    formBtn,       \* the submit button: disabled, and its label
    formPending,   \* per handleSubmit call awaiting its submission: its originalText
    formBanners,   \* the success and error banners on the page and their removal timers
    formFocus,     \* the field that has focus (0: none of them)
    formResetThrows, \* form.reset is not callable (a control named 'reset' shadows it)
    formLast,      \* the kind of the event handled last
    \* LazyLoader
    lazySupported, \* 'IntersectionObserver' in window
    lazyImages,    \* per image: observed, loadImage calls, loads in flight, class 'loaded'
    lazySeen,      \* per image: "in" or "out" as the observer computed last ("new": not yet)
    lazyQueue,     \* the observer's queued entries, not yet delivered
    \* App
    appPage,       \* the page and the browser the script is loaded into (see AppPages)
    appPhase,      \* where App.init stands: "new", "waiting" or "done"
    appModules,    \* the keys of this.modules
    appHandlers,   \* the window's 'error' and 'unhandledrejection' listeners are registered
    appAnnouncer,  \* window.announcer is set
    appLog,        \* what init logged last: "none", "ok" or "error"
    \* AnimationObserver
    animSupported, \* 'IntersectionObserver' in window
    animElements,  \* per element: observed, class 'fade-in'
    animSeen,      \* per element: "in" or "out" as the observer computed last ("new": not yet)
    animQueue,     \* the observer's queued entries, not yet delivered
    animLate,      \* entries delivered for elements that carried 'fade-in' already
    \* setFocusTrap on one container
    trapSize,      \* how many focusable elements the container holds
    trapListeners, \* how many keydown listeners setFocusTrap has added to it
    trapFocus,     \* document.activeElement: element 1..trapSize, or 0 (outside)
    trapKey,       \* the Tab key handled last: shift, where it was pressed, where it led
    \* One field of a form and its listeners
    fld,           \* the field: type, required, value and its error display
    fldInput,      \* its debounced input listener has a timer pending
    fldFocus,      \* the field has focus
    fldSubmitting, \* a handleSubmit call that found the form valid awaits its submission
    fldLast,       \* the kind of the event handled last
    fldLastMarked, \* whether the field carried the class 'error' before that event
    \* The banners of showSuccessMessage and showErrorMessage
    bnr,           \* the banners on the page and their removal timers (as formBanners)
    bnrLast,       \* the kind of the event handled last
    \* smoothScrollTo(element, offset, duration): one call and its frames
    scrArgs,       \* [targetPosition, startPosition, duration] of the call
    scr,           \* [called, startTime, requested, frames, timeElapsed, run]
    scrClock       \* the timestamp of the latest animation frame

thrVars == <<thrLimit, thr, thrAge, thrCalls, thrExec, thrRanWith, thrFirstArg>>
debVars ==
    <<debWait, debImmediate, deb, debSince, debCalls, debExec, debLastArg, debRanWith,
      debFirstArg>>
bttVars == <<scrollY, bttVisible, bttThrottle>>
faqVars == <<faqItems, faqLast, faqLastWasOpen, faqLastAgreed>>
navVars == <<navHasMenu, navMenuLinks, nav, navOp, innerWidth, navResize, navEv>>
valVars == <<valField, valResult>>
formVars ==
    <<formFields, formBtn, formPending, formBanners, formFocus, formResetThrows, formLast>>
lazyVars == <<lazySupported, lazyImages, lazySeen, lazyQueue>>
appVars == <<appPage, appPhase, appModules, appHandlers, appAnnouncer, appLog>>
animVars == <<animSupported, animElements, animSeen, animQueue, animLate>>
trapVars == <<trapSize, trapListeners, trapFocus, trapKey>>
fldVars == <<fld, fldInput, fldFocus, fldSubmitting, fldLast, fldLastMarked>>
bnrVars == <<bnr, bnrLast>>
scrVars == <<scrArgs, scr, scrClock>>
vars ==
    <<thrVars, debVars, bttVars, faqVars, navVars, valVars, formVars, lazyVars,
      appVars, animVars, trapVars, fldVars, bnrVars, scrVars>>

\* ------------------------------------------------------------------------
\* Timers
\* ------------------------------------------------------------------------
\* setTimeout(callback, delay): the time left, and the arguments the callback's
\* closure holds (0 when it holds none).
Timer(delay, args) == [left |-> delay, args |-> args]

\* A timer is due when no time is left on it.
DueTimers(timers) == {t \in timers : t.left = 0}
Due(timers) == DueTimers(timers) # {}

\* One millisecond passes for every pending timer.
Elapse(timers) == {Timer(t.left - 1, t.args) : t \in timers}

Min(a, b) == IF a < b THEN a ELSE b

\* ------------------------------------------------------------------------
\* throttle (lines 53-62)
\* ------------------------------------------------------------------------
\* let inThrottle;  (undefined is falsy)
ThrottleNew == [inThrottle |-> FALSE, timers |-> {}]

\* The mutation of ThrottleRuns: the guard on inThrottle is lost.
ThrottleRunsAlways(th) == TRUE

\* if (!inThrottle) func.apply(this, args)
ThrottleRuns(th) == ~th.inThrottle

\* A call of the returned function: inThrottle = true; setTimeout(..., limit)
ThrottleCall(th, limit) ==
    IF ThrottleRuns(th)
    THEN [inThrottle |-> TRUE, timers |-> th.timers \cup {Timer(limit, 0)}]
    ELSE th

\* The timer's callback: () => inThrottle = false. It does not call func.
ThrottleTimeout(th, t) == [inThrottle |-> FALSE, timers |-> th.timers \ {t}]

\* ------------------------------------------------------------------------
\* debounce (lines 33-45)
\* ------------------------------------------------------------------------
\* let timeout;  "undefined" until the first call, "id" while a timer id is
\* stored, "null" once later() has run.
DebounceNew == [timeout |-> "undefined", timers |-> {}]

\* const callNow = immediate && !timeout; ... if (callNow) func.apply(this, args)
DebounceCallNow(d, immediate) == immediate /\ d.timeout # "id"

\* The mutation of DebounceCall: clearTimeout(timeout) is left out.
DebounceCallNoClear(d, wait, args) ==
    [timeout |-> "id", timers |-> d.timers \cup {Timer(wait, args)}]

\* clearTimeout(timeout); timeout = setTimeout(later, wait). later is the
\* closure of this call, so it holds this call's args. Only the timer stored
\* in timeout can be pending, so clearing it leaves none.
DebounceCall(d, wait, args) == [timeout |-> "id", timers |-> {Timer(wait, args)}]

\* later(): timeout = null
DebounceLater(d, t) == [timeout |-> "null", timers |-> d.timers \ {t}]

\* The mutation of DebounceLaterRuns: later() runs func with immediate too.
DebounceLaterRunsAlways(immediate) == TRUE

\* later(): if (!immediate) func.apply(this, args)
DebounceLaterRuns(immediate) == ~immediate

\* ------------------------------------------------------------------------
\* Specification of one throttled function
\* ------------------------------------------------------------------------
ThrOff ==
    /\ thrLimit = 1
    /\ thr = ThrottleNew
    /\ thrAge = 1
    /\ thrCalls = 0
    /\ thrExec = 0
    /\ thrRanWith = 0
    /\ thrFirstArg = 0

DebOff ==
    /\ debWait = 1
    /\ debImmediate = FALSE
    /\ deb = DebounceNew
    /\ debSince = 1
    /\ debCalls = 0
    /\ debExec = 0
    /\ debLastArg = 0
    /\ debRanWith = 0
    /\ debFirstArg = 0

BttOff ==
    /\ scrollY = 0
    /\ bttVisible = FALSE
    /\ bttThrottle = ThrottleNew

FaqOff ==
    /\ faqItems = [i \in 1..NumFaq |-> [aria |-> "false", active |-> FALSE]]
    /\ faqLast = 0
    /\ faqLastWasOpen = FALSE
    /\ faqLastAgreed = TRUE

\* The Navigation controller as its constructor leaves it (lines 147-155):
\* isMenuOpen = false; the page delivers the panel and the button without the
\* class 'active', the button with aria-expanded 'false', the body unlocked.
\* focus is document.activeElement: "body", "btn" (the menu button), "panel"
\* (an element inside the panel), "target" (a section a link points to) or
\* "page" (any other element). traps counts the keydown listeners on the panel.
NavNew ==
    [isMenuOpen |-> FALSE, menuActive |-> FALSE, btnActive |-> FALSE,
     ariaExpanded |-> "false", overflow |-> "", focus |-> "body", traps |-> 0]

\* No event handled yet. kind is the event ("btn", "escape", "outside",
\* "link", "resize", "timer"), link the clicked link's kind, calls what the
\* link's listener called, in order.
NavNoEvent == [kind |-> "none", wasOpen |-> FALSE, link |-> "none", calls |-> <<>>]

NavOff ==
    /\ navHasMenu = TRUE
    /\ navMenuLinks = 1
    /\ nav = NavNew
    /\ navOp = [kind |-> "none", after |-> NavNew]
    /\ innerWidth = DESKTOP_WIDTH
    /\ navResize = DebounceNew
    /\ navEv = NavNoEvent

\* A field as the page delivers it: no error shown. errorElement says
\* whether the page has the element with id '<field.name>-error'; message and
\* visible are that element's textContent and class 'visible'.
Field(type, required, value, errorElement) ==
    [type |-> type, required |-> required, value |-> value,
     errorElement |-> errorElement,
     error |-> FALSE, ariaInvalid |-> FALSE, message |-> "", visible |-> FALSE]

ValOff ==
    /\ valField = Field("text", FALSE, <<>>, TRUE)
    /\ valResult = [ran |-> FALSE, isValid |-> TRUE, errorMessage |-> ""]

\* The form's fields cycle through a required text field, a required email
\* field and an optional tel field.
FormFieldType(i) == CASE i % 3 = 1 -> "text" [] i % 3 = 2 -> "email" [] OTHER -> "tel"
FormFieldRequired(i) == i % 3 # 0

\* The submit button's labels: the page's, and the busy one of line 479.
LABEL_PAGE == "Send"
LABEL_BUSY == "Sending..."

\* No banner on the page.
NoBanners(slots) == [shown |-> [b \in 1..slots |-> "none"], timers |-> {}]

\* The form before any event; the page has every field's error element. No
\* banner is on the page (shown: per banner slot "none", "success" or
\* "error"; timers: the slots whose removal timer is pending).
FormNew ==
    /\ formFields = [i \in 1..NumFields |->
                        Field(FormFieldType(i), FormFieldRequired(i), <<>>, TRUE)]
    /\ formBtn = [disabled |-> FALSE, label |-> LABEL_PAGE]
    /\ formPending = <<>>
    /\ formBanners = NoBanners(MaxBanners)
    /\ formFocus = 0
    /\ formLast = "none"

FormOff == FormNew /\ formResetThrows = FALSE

\* A lazy image before the loader has touched it.
LazyImage(observed, attempts) ==
    [observed |-> observed, attempts |-> attempts, inFlight |-> attempts, loaded |-> FALSE]

\* LazyLoader.init (lines 297-316): with IntersectionObserver every image is
\* observed; without it loadAllImages calls loadImage once per image.
LazyNew ==
    /\ lazyImages = [i \in 1..NumImages |->
                        IF lazySupported THEN LazyImage(TRUE, 0) ELSE LazyImage(FALSE, 1)]
    /\ lazySeen = [i \in 1..NumImages |-> "new"]
    /\ lazyQueue = <<>>

LazyOff == lazySupported = TRUE /\ LazyNew

\* A page: whether it has the element #navbar; per .nav-link or .mobile-link
\* element whether its href property parses as a URL ("page") or not ("none":
\* the element has no href, so the property is '' or undefined);
\* document.readyState when the script runs; and the PerformanceMonitor: not
\* constructed ("off": the host is not local), constructed ("ok"), or its
\* constructor throws ("throws": the browser's PerformanceObserver rejects
\* observe({type})).
AppPages ==
    [navbar : BOOLEAN,
     hrefs : UNION {[1..k -> {"page", "none"}] : k \in 0..MaxNavLinks},
     readyState : {"loading", "complete"},
     perf : {"off", "ok", "throws"}]

\* The App before its constructor has run.
AppNew ==
    /\ appPhase = "new"
    /\ appModules = {}
    /\ appHandlers = FALSE
    /\ appAnnouncer = FALSE
    /\ appLog = "none"

AppOff ==
    /\ appPage = [navbar |-> TRUE, hrefs |-> <<>>, readyState |-> "complete", perf |-> "off"]
    /\ AppNew

\* An animated element as the page delivers it.
AnimElement(observed) == [observed |-> observed, fadeIn |-> FALSE]

\* AnimationObserver.init (lines 651-665): without IntersectionObserver
\* nothing is observed; with it every element is.
AnimNew ==
    /\ animElements = [i \in 1..NumAnimated |-> AnimElement(animSupported)]
    /\ animSeen = [i \in 1..NumAnimated |-> "new"]
    /\ animQueue = <<>>
    /\ animLate = 0

AnimOff == animSupported = TRUE /\ AnimNew

\* A container on which setFocusTrap has not been called; focus is outside it.
TrapNew ==
    /\ trapListeners = 0
    /\ trapFocus = 0
    /\ trapKey = [kind |-> "none", from |-> 0, to |-> 0, listeners |-> 0]

TrapOff == trapSize = 1 /\ TrapNew

\* A field before any event: no timer pending, not focused.
FldNew ==
    /\ fldInput = FALSE
    /\ fldFocus = FALSE
    /\ fldSubmitting = FALSE
    /\ fldLast = "none"
    /\ fldLastMarked = FALSE

FldOff == fld = Field("text", FALSE, <<>>, TRUE) /\ FldNew

BnrOff == bnr = NoBanners(MaxShown) /\ bnrLast = "none"

\* smoothScrollTo not yet called: no frame requested, nothing written.
\* startTime is <<>> for null or <<t>> for the timestamp t; run is <<>> or
\* <<r>> for the value given to window.scrollTo last, r being that value
\* times ScrScale.
ScrNew ==
    [called |-> FALSE, startTime |-> <<>>, requested |-> FALSE, frames |-> 0,
     timeElapsed |-> 0, run |-> <<>>]

ScrOff ==
    /\ scrArgs = [targetPosition |-> 0, startPosition |-> 0, duration |-> 1]
    /\ scr = ScrNew
    /\ scrClock = 0

ThrInit ==
    /\ thrLimit \in 1..MaxLimit
    /\ thr = ThrottleNew
    /\ thrAge = thrLimit
    /\ thrCalls = 0
    /\ thrExec = 0
    /\ thrRanWith = 0
    /\ thrFirstArg = 0

\* A call of the throttled function. A call that comes within one interval
\* of the burst's first call belongs to the burst; any other call begins a
\* new burst.
ThrCall(args) ==
    /\ ~Due(thr.timers)
    /\ LET fresh == thrAge >= thrLimit
           ran == IF ThrottleRuns(thr) THEN 1 ELSE 0
       IN  /\ fresh \/ thrCalls < MaxCalls
           /\ thrAge' = (IF fresh THEN 0 ELSE thrAge)
           /\ thrCalls' = (IF fresh THEN 1 ELSE thrCalls + 1)
           /\ thrExec' = (IF fresh THEN ran ELSE thrExec + ran)
           /\ thrRanWith' = (IF ran = 1 THEN args ELSE thrRanWith)
           /\ thrFirstArg' = (IF fresh THEN args ELSE thrFirstArg)
    /\ thr' = ThrottleCall(thr, thrLimit)
    /\ UNCHANGED thrLimit

ThrTimer ==
    /\ \E t \in DueTimers(thr.timers) : thr' = ThrottleTimeout(thr, t)
    /\ UNCHANGED <<thrLimit, thrAge, thrCalls, thrExec, thrRanWith, thrFirstArg>>

ThrTick ==
    /\ ~Due(thr.timers)
    /\ thr.timers # {} \/ thrAge < thrLimit
    /\ thr' = [thr EXCEPT !.timers = Elapse(thr.timers)]
    /\ thrAge' = Min(thrAge + 1, thrLimit)
    /\ UNCHANGED <<thrLimit, thrCalls, thrExec, thrRanWith, thrFirstArg>>

ThrNext ==
    /\ (\E a \in 1..MaxArg : ThrCall(a)) \/ ThrTimer \/ ThrTick
    /\ UNCHANGED <<debVars, bttVars, faqVars, navVars, valVars, formVars, lazyVars,
                 appVars, animVars, trapVars,
                 fldVars, bnrVars, scrVars>>

ThrottleSpecInit ==
    ThrInit /\ DebOff /\ BttOff /\ FaqOff /\ NavOff /\ ValOff /\ FormOff /\ LazyOff
    /\ AppOff /\ AnimOff /\ TrapOff
    /\ FldOff /\ BnrOff /\ ScrOff

SpecThrottle == ThrottleSpecInit /\ [][ThrNext]_vars

\* C1. Every burst of N >= 1 calls of a throttled function, all made within
\* one interval of the burst's first call, has executed the action exactly
\* once: the first call ran it, the other calls were dropped, and nothing
\* runs it afterwards (the count stays 1 until the next burst begins, and the
\* action last ran with the first call's argument).
C1_ThrottleOncePerBurst ==
    thrCalls >= 1 => (thrExec = 1 /\ thrRanWith = thrFirstArg)

\* A burst of MaxCalls calls, whose interval has passed and whose timer has fired.
C1_Witness ==
    /\ thrCalls = MaxCalls
    /\ thrExec = 1
    /\ thrAge = thrLimit
    /\ thr.timers = {}
    /\ ~thr.inThrottle

\* ------------------------------------------------------------------------
\* Specification of one debounced function
\* ------------------------------------------------------------------------
DebInit ==
    /\ debWait \in 1..MaxWait
    /\ debImmediate \in BOOLEAN
    /\ deb = DebounceNew
    /\ debSince = debWait
    /\ debCalls = 0
    /\ debExec = 0
    /\ debLastArg = 0
    /\ debRanWith = 0
    /\ debFirstArg = 0

\* A call of the debounced function. A call that comes less than wait after
\* the previous call belongs to the previous call's burst; any other call
\* begins a new burst.
DebCall(args) ==
    /\ ~Due(deb.timers)
    /\ LET fresh == debSince >= debWait
           ran == IF DebounceCallNow(deb, debImmediate) THEN 1 ELSE 0
       IN  /\ fresh \/ debCalls < MaxCalls
           /\ debCalls' = (IF fresh THEN 1 ELSE debCalls + 1)
           /\ debExec' = (IF fresh THEN ran ELSE debExec + ran)
           /\ debRanWith' = (IF ran = 1 THEN args ELSE debRanWith)
           /\ debFirstArg' = (IF fresh THEN args ELSE debFirstArg)
    /\ debLastArg' = args
    /\ debSince' = 0
    /\ deb' = DebounceCall(deb, debWait, args)
    /\ UNCHANGED <<debWait, debImmediate>>

\* A due timer runs later().
DebTimer ==
    /\ \E t \in DueTimers(deb.timers) :
        /\ deb' = DebounceLater(deb, t)
        /\ IF DebounceLaterRuns(debImmediate)
           THEN debExec' = debExec + 1 /\ debRanWith' = t.args
           ELSE UNCHANGED <<debExec, debRanWith>>
    /\ UNCHANGED <<debWait, debImmediate, debSince, debCalls, debLastArg, debFirstArg>>

DebTick ==
    /\ ~Due(deb.timers)
    /\ deb.timers # {} \/ debSince < debWait
    /\ deb' = [deb EXCEPT !.timers = Elapse(deb.timers)]
    /\ debSince' = Min(debSince + 1, debWait)
    /\ UNCHANGED <<debWait, debImmediate, debCalls, debExec, debLastArg, debRanWith,
                   debFirstArg>>

DebNext ==
    /\ (\E a \in 1..MaxArg : DebCall(a)) \/ DebTimer \/ DebTick
    /\ UNCHANGED <<thrVars, bttVars, faqVars, navVars, valVars, formVars, lazyVars,
                 appVars, animVars, trapVars,
                 fldVars, bnrVars, scrVars>>

DebounceSpecInit ==
    ThrOff /\ DebInit /\ BttOff /\ FaqOff /\ NavOff /\ ValOff /\ FormOff /\ LazyOff
    /\ AppOff /\ AnimOff /\ TrapOff
    /\ FldOff /\ BnrOff /\ ScrOff

SpecDebounce == DebounceSpecInit /\ [][DebNext]_vars

\* C2. With fireLeading = false, a burst of N >= 1 calls, each less than
\* waitMs after the previous one, executes the action exactly once: not at all
\* while less than waitMs has passed since the burst's last call, and once
\* when waitMs has passed since it and the timer has run.
C2_DebounceOnceAfterWait ==
    (~debImmediate /\ debCalls >= 1) =>
        /\ debSince < debWait => debExec = 0
        /\ (debSince = debWait /\ ~Due(deb.timers)) => debExec = 1

\* A burst of MaxCalls calls whose trailing execution has happened.
C2_Witness ==
    /\ ~debImmediate
    /\ debCalls = MaxCalls
    /\ debSince = debWait
    /\ deb.timers = {}
    /\ debExec = 1

\* C13 as stated: with fireLeading = true a burst executes the action once at
\* its first invocation (so once while less than waitMs has passed since the
\* last call) and once more when the call scheduled waitMs after its last
\* invocation fires (twice in all).
C13_LeadingAndTrailing ==
    (debImmediate /\ debCalls >= 1) =>
        /\ debSince < debWait => debExec = 1
        /\ (debSince = debWait /\ ~Due(deb.timers)) => debExec = 2

\* C13, amended: with fireLeading = true every invocation cancels the
\* pending scheduled call and schedules one waitMs later (the only scheduled
\* call is the one of the last invocation), and a burst executes the action
\* exactly once, at its first invocation and with that invocation's argument;
\* the scheduled call executes nothing when it fires.
C13_LeadingOnly ==
    (debImmediate /\ debCalls >= 1) =>
        /\ debExec = 1
        /\ debRanWith = debFirstArg
        /\ deb.timers \subseteq {Timer(debWait - debSince, debLastArg)}
        /\ debSince < debWait => deb.timers # {}

\* A burst of MaxCalls calls with fireLeading = true, whose first and last
\* arguments differ and whose scheduled call has fired.
C13_Witness ==
    /\ debImmediate
    /\ debCalls = MaxCalls
    /\ debFirstArg # debLastArg
    /\ debSince = debWait
    /\ deb = [timeout |-> "null", timers |-> {}]
    /\ debExec = 1

\* ------------------------------------------------------------------------
\* BackToTop (lines 585-631)
\* ------------------------------------------------------------------------
\* The scroll positions tried: the top, the threshold, just above it, far below.
ScrollPositions ==
    {0, BACK_TO_TOP_THRESHOLD, BACK_TO_TOP_THRESHOLD + 1, 2 * BACK_TO_TOP_THRESHOLD}

\* handleScroll: the class 'visible' is added above the threshold, else removed.
HandleScroll(y) == y > BACK_TO_TOP_THRESHOLD

\* constructor and init: the button is looked up, the listeners are bound and
\* handleScroll runs once.
BttInit ==
    /\ scrollY \in ScrollPositions
    /\ bttVisible = HandleScroll(scrollY)
    /\ bttThrottle = ThrottleNew

\* A scroll event at the new position y: the throttled listener is called.
BttScroll(y) ==
    /\ ~Due(bttThrottle.timers)
    /\ y # scrollY
    /\ scrollY' = y
    /\ bttVisible' = (IF ThrottleRuns(bttThrottle) THEN HandleScroll(y) ELSE bttVisible)
    /\ bttThrottle' = ThrottleCall(bttThrottle, THROTTLE_DELAY)

BttTimer ==
    /\ \E t \in DueTimers(bttThrottle.timers) :
        bttThrottle' = ThrottleTimeout(bttThrottle, t)
    /\ UNCHANGED <<scrollY, bttVisible>>

BttTick ==
    /\ ~Due(bttThrottle.timers)
    /\ bttThrottle.timers # {}
    /\ bttThrottle' = [bttThrottle EXCEPT !.timers = Elapse(bttThrottle.timers)]
    /\ UNCHANGED <<scrollY, bttVisible>>

BttNext ==
    /\ (\E y \in ScrollPositions : BttScroll(y)) \/ BttTimer \/ BttTick
    /\ UNCHANGED <<thrVars, debVars, faqVars, navVars, valVars, formVars, lazyVars,
                 appVars, animVars, trapVars,
                 fldVars, bnrVars, scrVars>>

BackToTopSpecInit ==
    ThrOff /\ DebOff /\ BttInit /\ FaqOff /\ NavOff /\ ValOff /\ FormOff /\ LazyOff
    /\ AppOff /\ AnimOff /\ TrapOff
    /\ FldOff /\ BnrOff /\ ScrOff

SpecBackToTop == BackToTopSpecInit /\ [][BttNext]_vars

\* C10. After every scroll event the back-to-top control is visible exactly
\* when the scroll position is above the threshold, also when scroll events
\* are less than the throttle interval apart.
C10_VisibleTracksScroll == bttVisible <=> scrollY > BACK_TO_TOP_THRESHOLD

\* ------------------------------------------------------------------------
\* FAQ (lines 535-579)
\* ------------------------------------------------------------------------
\* The markup of one item as the page may deliver it: aria-expanded 'true',
\* 'false' or absent on the question, the class 'active' on the answer or not.
FaqMarkup == [aria : {"true", "false", "none"}, active : BOOLEAN]

\* setAttribute('aria-expanded', b) stores String(b).
BoolAttr(b) == IF b THEN "true" ELSE "false"

\* const isOpen = question.getAttribute('aria-expanded') === 'true'
FaqIsOpen(items, i) == items[i].aria = "true"

\* The item's two expansion markers agree: aria-expanded is 'true' exactly
\* when the answer carries the class 'active'.
FaqMarkersAgree(item) == (item.aria = "true") <=> item.active

\* The mutation of ToggleFAQ: the class 'active' is toggled without the
\* force argument of line 577.
ToggleFAQNoForce(items, i) ==
    [j \in DOMAIN items |->
        IF j = i
        THEN [aria |-> BoolAttr(~FaqIsOpen(items, i)), active |-> ~items[i].active]
        ELSE [aria |-> "false", active |-> FALSE]]

\* The mutation of ToggleFAQ: the loop that collapses the other items is lost.
ToggleFAQKeepsOthers(items, i) ==
    [items EXCEPT ![i] = [aria |-> BoolAttr(~FaqIsOpen(items, i)),
                          active |-> ~FaqIsOpen(items, i)]]

\* toggleFAQ(question, answer) for the question and answer of item i: every
\* other item gets aria-expanded 'false' and loses 'active'; item i gets
\* aria-expanded !isOpen and classList.toggle('active', !isOpen).
ToggleFAQ(items, i) ==
    [j \in DOMAIN items |->
        IF j = i
        THEN [aria |-> BoolAttr(~FaqIsOpen(items, i)), active |-> ~FaqIsOpen(items, i)]
        ELSE [aria |-> "false", active |-> FALSE]]

FaqInit ==
    /\ faqItems \in [1..NumFaq -> FaqMarkup]
    /\ faqLast = 0
    /\ faqLastWasOpen = FALSE
    /\ faqLastAgreed = TRUE

\* A click on question i, or Enter or Space pressed on it: both listeners
\* (lines 547-549, 552-557) call toggleFAQ.
FaqActivate(i) ==
    /\ faqItems' = ToggleFAQ(faqItems, i)
    /\ faqLast' = i
    /\ faqLastWasOpen' = FaqIsOpen(faqItems, i)
    /\ faqLastAgreed' = \A j \in 1..NumFaq : FaqMarkersAgree(faqItems[j])

FaqNext ==
    /\ \E i \in 1..NumFaq : FaqActivate(i)
    /\ UNCHANGED <<thrVars, debVars, bttVars, navVars, valVars, formVars, lazyVars,
                 appVars, animVars, trapVars,
                 fldVars, bnrVars, scrVars>>

FaqSpecInit ==
    ThrOff /\ DebOff /\ BttOff /\ FaqInit /\ NavOff /\ ValOff /\ FormOff /\ LazyOff
    /\ AppOff /\ AnimOff /\ TrapOff
    /\ FldOff /\ BnrOff /\ ScrOff

SpecFaq == FaqSpecInit /\ [][FaqNext]_vars

FaqExpanded == {i \in 1..NumFaq : faqItems[i].aria = "true"}
FaqShown == {i \in 1..NumFaq : faqItems[i].active}

SetFocusTrap(n) == [n EXCEPT !.traps = @ + 1]

\* The mutation of OpenMobileMenu: the body scroll lock (line 247) is lost.
OpenMobileMenuNoLock(n, links) ==
    [SetFocusTrap(n) EXCEPT
        !.isMenuOpen = TRUE, !.menuActive = TRUE, !.btnActive = TRUE,
        !.ariaExpanded = "true",
        !.focus = IF links > 0 THEN "panel" ELSE @]

\* The mutation of OpenMobileMenu: focus is not moved into the panel.
OpenMobileMenuNoFocus(n, links) ==
    [SetFocusTrap(n) EXCEPT
        !.isMenuOpen = TRUE, !.menuActive = TRUE, !.btnActive = TRUE,
        !.ariaExpanded = "true", !.overflow = "hidden"]

\* openMobileMenu (lines 231-248). firstLink is the panel's first
\* .mobile-link; it is focused if the panel has one.
OpenMobileMenu(n, links) ==
    [SetFocusTrap(n) EXCEPT
        !.isMenuOpen = TRUE, !.menuActive = TRUE, !.btnActive = TRUE,
        !.ariaExpanded = "true",
        !.focus = IF links > 0 THEN "panel" ELSE @,
        !.overflow = "hidden"]

\* closeMobileMenu (lines 250-261)
CloseMobileMenu(n) ==
    [n EXCEPT
        !.isMenuOpen = FALSE, !.menuActive = FALSE, !.btnActive = FALSE,
        !.ariaExpanded = "false", !.overflow = "", !.focus = "btn"]

\* toggleMobileMenu (lines 223-229)
ToggleMobileMenu(n, links) ==
    IF n.isMenuOpen THEN CloseMobileMenu(n) ELSE OpenMobileMenu(n, links)

\* The mutation of DocumentClick: the click's target is not looked at.
DocumentClickAnyTarget(n, inside) ==
    IF n.isMenuOpen THEN CloseMobileMenu(n) ELSE n

\* The document's click listener (lines 181-187), for a click whose target is
\* inside the panel or the button (inside) or not.
DocumentClick(n, inside) ==
    IF n.isMenuOpen /\ ~inside THEN CloseMobileMenu(n) ELSE n

\* The widths tried: a mobile width and the desktop breakpoint.
Widths == {DESKTOP_WIDTH - 1, DESKTOP_WIDTH}

\* The mutation of ResizeCloses: the width is not looked at.
ResizeClosesAnyWidth(n, width) == n.isMenuOpen

\* The resize listener's body (lines 217-219)
ResizeCloses(n, width) == width >= DESKTOP_WIDTH /\ n.isMenuOpen

NavInit ==
    /\ navHasMenu \in BOOLEAN
    /\ navMenuLinks \in (IF navHasMenu THEN 0..MaxMenuLinks ELSE {0})
    /\ nav = NavNew
    /\ navOp = [kind |-> "none", after |-> NavNew]
    /\ innerWidth \in Widths
    /\ navResize = DebounceNew
    /\ navEv = NavNoEvent

\* No event is handled while the resize timer is due.
NavReady == ~Due(navResize.timers)

\* The record of the open or close call a handler made, if it made one.
NavOpOf(before, after) ==
    IF after.traps > before.traps THEN [kind |-> "open", after |-> after]
    ELSE [kind |-> "close", after |-> after]

\* The event record of an event that is no link click.
NavEvent(kind, n) == [kind |-> kind, wasOpen |-> n.isMenuOpen, link |-> "none", calls |-> <<>>]

\* A click on the menu button: the button takes focus, its listener
\* (lines 168-171) toggles the menu, then the click reaches the document's
\* listener with the button as target. The listeners exist on a page that has
\* the panel and the button (line 167).
NavBtnClick ==
    /\ NavReady
    /\ navHasMenu
    /\ nav.isMenuOpen \/ nav.traps < MaxTraps
    /\ LET clicked == [nav EXCEPT !.focus = "btn"]
           toggled == ToggleMobileMenu(clicked, navMenuLinks)
       IN  /\ nav' = DocumentClick(toggled, TRUE)
           /\ navOp' = NavOpOf(clicked, toggled)
    /\ navEv' = NavEvent("btn", nav)
    /\ UNCHANGED <<navHasMenu, navMenuLinks, innerWidth, navResize>>

\* The document's keydown listener (lines 174-178) for the Escape key
EscapeKey(n) == IF n.isMenuOpen THEN CloseMobileMenu(n) ELSE n

\* The Escape key is pressed.
NavEscape ==
    /\ NavReady
    /\ nav' = (IF navHasMenu THEN EscapeKey(nav) ELSE nav)
    /\ navOp' = IF nav' # nav THEN NavOpOf(nav, nav') ELSE navOp
    /\ navEv' = NavEvent("escape", nav)
    /\ UNCHANGED <<navHasMenu, navMenuLinks, innerWidth, navResize>>

\* A click outside the panel and the button, on something that is no
\* navigation link: whatever had focus loses it, then the document's listener runs.
NavOutsideClick ==
    /\ NavReady
    /\ LET clicked == [nav EXCEPT !.focus = "body"]
       IN  /\ nav' = (IF navHasMenu THEN DocumentClick(clicked, FALSE) ELSE clicked)
           /\ navOp' = IF nav.isMenuOpen THEN NavOpOf(clicked, nav') ELSE navOp
    /\ navEv' = NavEvent("outside", nav)
    /\ UNCHANGED <<navHasMenu, navMenuLinks, innerWidth, navResize>>

\* A navigation link's click listener (lines 191-208). kind is "anchor" (href
\* '#id' of an existing section), "dangling" (href '#id' of no element) or
\* "page" (any other href). In the anchor branch closeMobileMenu is called
\* whatever isMenuOpen is; on a page without the panel this.mobileMenu is null
\* and the call throws at line 252, before smoothScrollTo.
LinkClick(n, kind, hasMenu) ==
    CASE kind = "anchor" /\ hasMenu ->
            [nav |-> [CloseMobileMenu(n) EXCEPT !.focus = "target"], threw |-> FALSE,
             calls |-> <<"closeMobileMenu", "smoothScrollTo", "focus">>]
      [] kind = "anchor" /\ ~hasMenu ->
            [nav |-> n, threw |-> TRUE, calls |-> <<"closeMobileMenu">>]
      [] kind = "page" /\ n.isMenuOpen ->
            [nav |-> CloseMobileMenu(n), threw |-> FALSE, calls |-> <<"closeMobileMenu">>]
      [] OTHER -> [nav |-> n, threw |-> FALSE, calls |-> <<>>]

\* A click on a navigation link, inside the panel (.mobile-link) or outside
\* it (.nav-link). The link takes focus; its listener runs; then the click
\* reaches the document's listener.
NavLinkClick(inPanel, kind) ==
    /\ NavReady
    /\ inPanel => navMenuLinks > 0
    /\ LET clicked == [nav EXCEPT !.focus = IF inPanel THEN "panel" ELSE "page"]
           handled == LinkClick(clicked, kind, navHasMenu)
           bubbled == IF navHasMenu THEN DocumentClick(handled.nav, inPanel)
                      ELSE handled.nav
       IN  /\ nav' = bubbled
           /\ navOp' = IF ~handled.threw /\ handled.calls # <<>>
                       THEN NavOpOf(clicked, CloseMobileMenu(clicked))
                       ELSE IF bubbled # handled.nav THEN NavOpOf(handled.nav, bubbled)
                       ELSE navOp
           /\ navEv' = [kind |-> "link", wasOpen |-> nav.isMenuOpen, link |-> kind,
                        calls |-> handled.calls]
    /\ UNCHANGED <<navHasMenu, navMenuLinks, innerWidth, navResize>>

\* A resize event (lines 216-220): the debounced listener is called.
NavResizeEvent(width) ==
    /\ NavReady
    /\ width # innerWidth
    /\ innerWidth' = width
    /\ navResize' = DebounceCall(navResize, DEBOUNCE_DELAY, 0)
    /\ navEv' = NavEvent("resize", nav)
    /\ UNCHANGED <<navHasMenu, navMenuLinks, nav, navOp>>

\* The resize timer runs later(), which runs the listener's body.
NavResizeTimer ==
    /\ \E t \in DueTimers(navResize.timers) : navResize' = DebounceLater(navResize, t)
    /\ IF DebounceLaterRuns(FALSE) /\ ResizeCloses(nav, innerWidth)
       THEN nav' = CloseMobileMenu(nav) /\ navOp' = NavOpOf(nav, nav')
       ELSE UNCHANGED <<nav, navOp>>
    /\ navEv' = NavEvent("timer", nav)
    /\ UNCHANGED <<navHasMenu, navMenuLinks, innerWidth>>

NavTick ==
    /\ NavReady
    /\ navResize.timers # {}
    /\ navResize' = [navResize EXCEPT !.timers = Elapse(navResize.timers)]
    /\ UNCHANGED <<navHasMenu, navMenuLinks, nav, navOp, innerWidth, navEv>>

NavNext ==
    /\ \/ NavBtnClick
       \/ NavEscape
       \/ NavOutsideClick
       \/ \E inPanel \in BOOLEAN, kind \in {"anchor", "dangling", "page"} :
            NavLinkClick(inPanel, kind)
       \/ \E w \in Widths : NavResizeEvent(w)
       \/ NavResizeTimer
       \/ NavTick
    /\ UNCHANGED <<thrVars, debVars, bttVars, faqVars, valVars, formVars, lazyVars,
                 appVars, animVars, trapVars,
                 fldVars, bnrVars, scrVars>>

NavSpecInit ==
    ThrOff /\ DebOff /\ BttOff /\ FaqOff /\ NavInit /\ ValOff /\ FormOff /\ LazyOff
    /\ AppOff /\ AnimOff /\ TrapOff
    /\ FldOff /\ BnrOff /\ ScrOff

SpecNav == NavSpecInit /\ [][NavNext]_vars

\* C3. In every state reachable by menu-button clicks, Escape keys, outside
\* clicks, navigation-link clicks and resize events, the body scroll lock is
\* active if and only if the menu state is open.
C3_ScrollLockIffOpen == (nav.overflow = "hidden") <=> nav.isMenuOpen

\* The menu is open and locked for the second time, a resize pending.
C3_Witness ==
    /\ nav.isMenuOpen
    /\ nav.overflow = "hidden"
    /\ nav.traps >= 2
    /\ navResize.timers # {}

\* C4 as stated: openMobileMenu always returns with the state open, the body
\* locked and focus inside the panel; closeMobileMenu always returns with the
\* state closed, the body unlocked and focus on the menu button.
C4_OpenCloseAlwaysMoveFocus ==
    /\ navOp.kind = "open" =>
        /\ navOp.after.isMenuOpen
        /\ navOp.after.overflow = "hidden"
        /\ navOp.after.focus = "panel"
    /\ navOp.kind = "close" =>
        /\ ~navOp.after.isMenuOpen
        /\ navOp.after.overflow = ""
        /\ navOp.after.focus = "btn"

\* C4, amended: as stated, except that openMobileMenu moves focus into the
\* panel (to its first .mobile-link) when the panel holds a .mobile-link, and
\* does not move focus into the panel when it holds none.
C4_OpenCloseMoveFocusIfLink ==
    /\ navOp.kind = "open" =>
        /\ navOp.after.isMenuOpen
        /\ navOp.after.overflow = "hidden"
        /\ navMenuLinks > 0 => navOp.after.focus = "panel"
        /\ navMenuLinks = 0 => navOp.after.focus # "panel"
    /\ navOp.kind = "close" =>
        /\ ~navOp.after.isMenuOpen
        /\ navOp.after.overflow = ""
        /\ navOp.after.focus = "btn"

\* The menu was opened, closed and opened again, and the last opening moved
\* focus into the panel.
C4_Witness ==
    /\ navMenuLinks > 0
    /\ nav.traps >= 2
    /\ navOp.kind = "open"
    /\ navOp.after.focus = "panel"
    /\ nav.isMenuOpen

\* C14. The menu follows the machine closed/open: a menu-button click while
\* closed leaves it open once the button's and the document's click listeners
\* have run; while open, a button click, an Escape key and an outside click
\* each leave it closed; while closed, an Escape key and an outside click
\* leave it closed.
C14_TwoStateMachine ==
    /\ (navEv.kind = "btn" /\ ~navEv.wasOpen) => nav.isMenuOpen
    /\ (navEv.kind \in {"btn", "escape", "outside"} /\ navEv.wasOpen) => ~nav.isMenuOpen
    /\ (navEv.kind \in {"escape", "outside"} /\ ~navEv.wasOpen) => ~nav.isMenuOpen

\* A button click found the menu closed, after an earlier opening, and left
\* it open.
C14_Witness ==
    /\ navEv.kind = "btn"
    /\ ~navEv.wasOpen
    /\ nav.isMenuOpen
    /\ nav.traps >= 2

\* Time passes, and a due timer's callback runs.
NavFairness ==
    /\ WF_vars(NavTick /\ UNCHANGED <<thrVars, debVars, bttVars, faqVars, valVars,
                                      formVars, lazyVars, appVars, animVars, trapVars,
                 fldVars, bnrVars, scrVars>>)
    /\ WF_vars(NavResizeTimer /\ UNCHANGED <<thrVars, debVars, bttVars, faqVars, valVars,
                                             formVars, lazyVars, appVars, animVars,
                                             trapVars,
                 fldVars, bnrVars, scrVars>>)

SpecNavLive == SpecNav /\ NavFairness

\* C15. The resize timer fires only when DEBOUNCE_DELAY has passed since the
\* last resize event (no younger timer is pending when it has fired); when it
\* fires at a width of at least 1024 the menu is closed afterwards, and when
\* it fires below 1024 the menu is as it was. So an open menu at a width of
\* at least 1024 with a resize pending is eventually closed, unless the width
\* goes below 1024 again.
C15_ResizeClosesAtDesktop ==
    /\ [](navEv.kind = "timer" =>
            /\ navResize.timers = {}
            /\ IF innerWidth >= DESKTOP_WIDTH THEN ~nav.isMenuOpen
               ELSE nav.isMenuOpen = navEv.wasOpen)
    /\ (nav.isMenuOpen /\ innerWidth >= DESKTOP_WIDTH /\ navResize.timers # {})
            ~> (~nav.isMenuOpen \/ innerWidth < DESKTOP_WIDTH)

\* The resize timer found the menu open at the desktop width and closed it.
C15_Witness ==
    /\ navEv.kind = "timer"
    /\ navEv.wasOpen
    /\ ~nav.isMenuOpen
    /\ innerWidth = DESKTOP_WIDTH
    /\ navOp.kind = "close"

\* C16. After every click on an anchor-style navigation link whose target
\* section exists, the listener has called closeMobileMenu and then
\* smoothScrollTo, the menu is closed, and focus is on the target section.
C16_AnchorClickClosesScrollsFocuses ==
    (navEv.kind = "link" /\ navEv.link = "anchor") =>
        /\ \E i, j \in DOMAIN navEv.calls :
            /\ i < j
            /\ navEv.calls[i] = "closeMobileMenu"
            /\ navEv.calls[j] = "smoothScrollTo"
        /\ ~nav.isMenuOpen
        /\ nav.focus = "target"

\* C23. After any sequence of menu open and close transitions at most one
\* focus-trap keydown listener is attached to the mobile-menu panel.
C23_AtMostOneFocusTrap == nav.traps <= 1

\* ------------------------------------------------------------------------
\* FormValidator.validateField (lines 390-449)
\* ------------------------------------------------------------------------
\* A value is a sequence of characters, each standing for its class: "a" (a
\* letter, or any character the patterns do not name), "@", ".", " " (white
\* space), "1" (a digit 1-9), "0", "+", "-" (a hyphen or a parenthesis).
EmailChars == {"a", "@", ".", " "}
TelChars == {"1", "0", "+", "-", " ", "a"}
FieldTypes == {"text", "email", "tel"}

Strings(chars, n) == UNION {[1..k -> chars] : k \in 0..n}

MSG_REQUIRED == "This field is required."
MSG_EMAIL == "Please enter a valid email address."
MSG_PHONE == "Please enter a valid phone number."

\* String.prototype.trim: white space is removed from both ends.
RECURSIVE Trim(_)
Trim(s) ==
    IF s = <<>> THEN s
    ELSE IF Head(s) = " " THEN Trim(Tail(s))
    ELSE IF s[Len(s)] = " " THEN Trim(SubSeq(s, 1, Len(s) - 1))
    ELSE s

\* [^\s@]
NotSpaceNorAt(c) == c # " " /\ c # "@"

\* /^[^\s@]+@[^\s@]+\.[^\s@]+$/ as the automaton the expression denotes.
\* States: 0 before the local part, 1 in it, 2 after the "@", 3 in the second
\* [^\s@]+, 4 after the "\.", 5 in the third [^\s@]+ (accepting).
EmailStep(q, c) ==
    CASE q = 0 -> IF NotSpaceNorAt(c) THEN {1} ELSE {}
      [] q = 1 -> IF NotSpaceNorAt(c) THEN {1} ELSE IF c = "@" THEN {2} ELSE {}
      [] q = 2 -> IF NotSpaceNorAt(c) THEN {3} ELSE {}
      [] q = 3 -> IF c = "." THEN {3, 4} ELSE IF NotSpaceNorAt(c) THEN {3} ELSE {}
      [] q = 4 -> IF NotSpaceNorAt(c) THEN {5} ELSE {}
      [] q = 5 -> IF NotSpaceNorAt(c) THEN {5} ELSE {}

RECURSIVE EmailRun(_, _)
EmailRun(states, s) ==
    IF s = <<>> THEN states
    ELSE EmailRun(UNION {EmailStep(q, Head(s)) : q \in states}, Tail(s))

\* emailRegex.test(value)
EmailRegexTest(s) == 5 \in EmailRun({0}, s)

\* value.replace(/[\s\-\(\)]/g, '')
StripPhone(s) == SelectSeq(s, LAMBDA c : c # " " /\ c # "-")

IsDigit(c) == c \in {"0", "1"}

\* /^[\+]?[1-9][\d]{0,15}$/ .test(s)
PhoneRegexTest(s) ==
    LET t == IF s # <<>> /\ Head(s) = "+" THEN Tail(s) ELSE s
    IN  /\ t # <<>>
        /\ Head(t) = "1"
        /\ Len(t) - 1 <= 15
        /\ \A i \in 2..Len(t) : IsDigit(t[i])

\* The mutation of FailedRule: the value is used as typed, not trimmed.
FailedRuleUntrimmed(f) ==
    LET value == f.value
    IN  IF f.required /\ value = <<>> THEN MSG_REQUIRED
        ELSE IF f.type = "email" /\ value # <<>>
             THEN (IF ~EmailRegexTest(value) THEN MSG_EMAIL ELSE "")
        ELSE IF f.type = "tel" /\ value # <<>>
             THEN (IF ~PhoneRegexTest(StripPhone(value)) THEN MSG_PHONE ELSE "")
        ELSE ""

\* The rule chain of validateField (lines 400-420): the message of the first
\* rule that fails, or '' when none fails (isValid stays true).
FailedRule(f) ==
    LET value == Trim(f.value)
    IN  IF f.required /\ value = <<>> THEN MSG_REQUIRED
        ELSE IF f.type = "email" /\ value # <<>>
             THEN (IF ~EmailRegexTest(value) THEN MSG_EMAIL ELSE "")
        ELSE IF f.type = "tel" /\ value # <<>>
             THEN (IF ~PhoneRegexTest(StripPhone(value)) THEN MSG_PHONE ELSE "")
        ELSE ""

\* clearFieldError (lines 440-449)
ClearFieldError(f) ==
    [f EXCEPT !.error = FALSE, !.ariaInvalid = FALSE,
              !.message = IF f.errorElement THEN "" ELSE @,
              !.visible = IF f.errorElement THEN FALSE ELSE @]

\* showFieldError (lines 429-438)
ShowFieldError(f, message) ==
    [f EXCEPT !.error = TRUE, !.ariaInvalid = TRUE,
              !.message = IF f.errorElement THEN message ELSE @,
              !.visible = IF f.errorElement THEN TRUE ELSE @]

\* The mutation of ValidateField: the previous error display is not cleared.
ValidateFieldNoClear(f) ==
    LET msg == FailedRule(f)
    IN  [isValid |-> msg = "",
         errorMessage |-> msg,
         field |-> IF msg # "" THEN ShowFieldError(f, msg) ELSE f]

\* validateField (lines 390-427): what it returns, the message it chose, and
\* the field as it leaves it.
ValidateField(f) ==
    LET msg == FailedRule(f)
        cleared == ClearFieldError(f)
    IN  [isValid |-> msg = "",
         errorMessage |-> msg,
         field |-> IF msg # "" THEN ShowFieldError(cleared, msg) ELSE cleared]

ValInit ==
    /\ \E type \in FieldTypes, required \in BOOLEAN, errorElement \in BOOLEAN :
        \E value \in (IF type = "tel" THEN Strings(TelChars, MaxTelLen)
                      ELSE Strings(EmailChars, MaxLen)) :
            valField = Field(type, required, value, errorElement)
    /\ valResult = [ran |-> FALSE, isValid |-> TRUE, errorMessage |-> ""]

\* validateField runs on the field (a blur, lines 372-374).
ValValidate ==
    /\ ~valResult.ran
    /\ valResult' = [ran |-> TRUE,
                     isValid |-> ValidateField(valField).isValid,
                     errorMessage |-> ValidateField(valField).errorMessage]
    /\ valField' = ValidateField(valField).field

ValNext ==
    /\ ValValidate
    /\ UNCHANGED <<thrVars, debVars, bttVars, faqVars, navVars, formVars, lazyVars,
                 appVars, animVars, trapVars,
                 fldVars, bnrVars, scrVars>>

ValidateSpecInit ==
    ThrOff /\ DebOff /\ BttOff /\ FaqOff /\ NavOff /\ ValInit /\ FormOff /\ LazyOff
    /\ AppOff /\ AnimOff /\ TrapOff
    /\ FldOff /\ BnrOff /\ ScrOff

SpecValidate == ValidateSpecInit /\ [][ValNext]_vars

\* The trimmed value has the shape local@domain.tld: no white space, exactly
\* one "@", something before it, and after it a "." that is neither the first
\* nor the last character of what follows the "@".
LocalAtDomainTld(v) ==
    /\ \A i \in 1..Len(v) : v[i] # " "
    /\ Cardinality({i \in 1..Len(v) : v[i] = "@"}) = 1
    /\ \E p \in 2..Len(v) :
        /\ v[p] = "@"
        /\ \E q \in (p + 2)..(Len(v) - 1) : v[q] = "."

\* v with the white space at its ends removed, said without Trim: the
\* stretch from the first to the last character that is no white space.
Inner(v) ==
    LET solid == {i \in 1..Len(v) : v[i] # " "}
    IN  IF solid = {} THEN <<>>
        ELSE SubSeq(v, CHOOSE i \in solid : \A j \in solid : i <= j,
                       CHOOSE i \in solid : \A j \in solid : i >= j)

\* C7. validateField reports the first failing rule, in the order
\* required-and-empty, email pattern, telephone pattern: a required field whose
\* trimmed value is empty fails with 'This field is required.' whatever its
\* type; otherwise a non-empty email field fails with 'Please enter a valid
\* email address.' exactly when its value does not have the shape
\* local@domain.tld; otherwise a non-empty tel field fails with the phone
\* message exactly when the phone pattern rejects it; a field for which no rule
\* fails is valid, with no message.
C7_FirstFailingRule ==
    valResult.ran =>
        LET v == Inner(valField.value)
            expected ==
                IF valField.required /\ v = <<>> THEN MSG_REQUIRED
                ELSE IF valField.type = "email" /\ v # <<>> /\ ~LocalAtDomainTld(v)
                     THEN MSG_EMAIL
                ELSE IF valField.type = "tel" /\ v # <<>>
                        /\ ~PhoneRegexTest(StripPhone(v))
                     THEN MSG_PHONE
                ELSE ""
        IN  /\ valResult.errorMessage = expected
            /\ valResult.isValid <=> expected = ""

\* The email field holding "a@a.a" (the shape of user@example.com) passed.
C7_Witness ==
    /\ valResult.ran
    /\ valField.type = "email"
    /\ valField.required
    /\ valField.value = <<"a", "@", "a", ".", "a">>
    /\ valResult.isValid

\* ------------------------------------------------------------------------
\* FormValidator on one form (lines 355-529)
\* ------------------------------------------------------------------------
\* Timers of this specification (the placeholder submission's 2000 ms, a
\* banner's 5000 ms) carry no clock: a pending one may fire at any later step.
\* The debounced input listener (lines 376-380) is specified on one field,
\* further down; here a blur validates the field in any case, so every field
\* state the input listener can produce is produced by FormBlur.

\* The values typed into a field of a type.
FieldValues(type) ==
    IF type = "tel" THEN {<<>>, <<"1">>, <<"a">>}
    ELSE {<<>>, <<"a">>, <<"a", "@", "a", ".", "a">>}

\* The values typed into field i.
FormValues(i) == FieldValues(FormFieldType(i))

RECURSIVE ValidateUntilInvalidFrom(_, _)
ValidateUntilInvalidFrom(fields, i) ==
    IF i > Len(fields) THEN fields
    ELSE IF ValidateField(fields[i]).isValid
         THEN ValidateUntilInvalidFrom(
                  [fields EXCEPT ![i] = ValidateField(fields[i]).field], i + 1)
    ELSE [fields EXCEPT ![i] = ValidateField(fields[i]).field]

\* The mutation of ValidateAll: the loop stops at the first invalid field.
ValidateUntilInvalid(fields) == ValidateUntilInvalidFrom(fields, 1)

\* handleSubmit, lines 456-460: inputs.forEach validates every field.
ValidateAll(fields) == [i \in DOMAIN fields |-> ValidateField(fields[i]).field]

\* isFormValid after the loop
IsFormValid(fields) == \A i \in DOMAIN fields : ValidateField(fields[i]).isValid

\* form.querySelector('.error'): the first field carrying the class (0: none)
FirstError(fields) ==
    IF \E i \in DOMAIN fields : fields[i].error
    THEN CHOOSE i \in DOMAIN fields :
            fields[i].error /\ \A j \in DOMAIN fields : fields[j].error => i <= j
    ELSE 0

\* form.reset(): every field takes its default value; classes are untouched.
FormReset(fields) == [i \in DOMAIN fields |-> [fields[i] EXCEPT !.value = <<>>]]

\* The banner slots that are free, and the lowest of them.
FreeSlots(bn) == {b \in DOMAIN bn.shown : bn.shown[b] = "none"}
FreeSlot(bn) == CHOOSE b \in FreeSlots(bn) : \A c \in FreeSlots(bn) : b <= c

\* The mutation of ShowBanner: no removal timer is set.
ShowBannerNoTimer(bn, kind) ==
    [bn EXCEPT !.shown = [@ EXCEPT ![FreeSlot(bn)] = kind]]

\* showSuccessMessage / showErrorMessage (lines 498-528): the banner is
\* inserted before the form and its removal timer set.
ShowBanner(bn, kind) ==
    [shown |-> [bn.shown EXCEPT ![FreeSlot(bn)] = kind],
     timers |-> bn.timers \cup {FreeSlot(bn)}]

\* A removal timer's callback (lines 509-511, 525-527): message.remove()
RemoveBanner(bn, b) ==
    [shown |-> [bn.shown EXCEPT ![b] = "none"], timers |-> bn.timers \ {b}]

FormInit == FormNew /\ formResetThrows \in BOOLEAN

\* The user puts the cursor into field i and changes its value.
FormType(i, v) ==
    /\ v # formFields[i].value
    /\ formFields' = [formFields EXCEPT ![i].value = v]
    /\ formFocus' = i
    /\ formLast' = "input"
    /\ UNCHANGED <<formBtn, formPending, formBanners, formResetThrows>>

\* Field i loses focus (lines 372-374).
FormBlur(i) ==
    /\ formFocus = i
    /\ formFields' = [formFields EXCEPT ![i] = ValidateField(@).field]
    /\ formFocus' = 0
    /\ formLast' = "blur"
    /\ UNCHANGED <<formBtn, formPending, formBanners, formResetThrows>>

\* A submit event (lines 384-387) and handleSubmit up to its await
\* (lines 451-482).
FormSubmit ==
    /\ formFields' = ValidateAll(formFields)
    /\ formLast' = "submit"
    /\ IF ~IsFormValid(formFields)
       THEN /\ formFocus' = FirstError(formFields')
            /\ UNCHANGED <<formBtn, formPending, formBanners>>
       ELSE /\ Len(formPending) < MaxPending
            /\ formPending' = Append(formPending, formBtn.label)
            /\ formBtn' = [disabled |-> TRUE, label |-> LABEL_BUSY]
            /\ UNCHANGED <<formFocus, formBanners>>
    /\ UNCHANGED formResetThrows

\* The placeholder submission of the oldest waiting handleSubmit call is over;
\* the call goes on (lines 484-495): the success banner is shown and the form
\* reset, then the button is restored; if form.reset() throws, the catch block
\* shows the error banner instead of restoring the button.
FormComplete ==
    /\ formPending # <<>>
    /\ formPending' = Tail(formPending)
    /\ formLast' = "complete"
    /\ IF formResetThrows
       THEN /\ Cardinality(FreeSlots(formBanners)) >= 2
            /\ formBanners' = ShowBanner(ShowBanner(formBanners, "success"), "error")
            /\ UNCHANGED <<formFields, formBtn>>
       ELSE /\ Cardinality(FreeSlots(formBanners)) >= 1
            /\ formBanners' = ShowBanner(formBanners, "success")
            /\ formFields' = FormReset(formFields)
            /\ formBtn' = [disabled |-> FALSE, label |-> Head(formPending)]
    /\ UNCHANGED <<formFocus, formResetThrows>>

\* The removal timer of banner b fires.
FormBannerTimer(b) ==
    /\ b \in formBanners.timers
    /\ formBanners' = RemoveBanner(formBanners, b)
    /\ formLast' = "timer"
    /\ UNCHANGED <<formFields, formBtn, formPending, formFocus, formResetThrows>>

FormNext ==
    /\ \/ \E i \in 1..NumFields : \E v \in FormValues(i) : FormType(i, v)
       \/ \E i \in 1..NumFields : FormBlur(i)
       \/ FormSubmit
       \/ FormComplete
       \/ \E b \in 1..MaxBanners : FormBannerTimer(b)
    /\ UNCHANGED <<thrVars, debVars, bttVars, faqVars, navVars, valVars, lazyVars,
                 appVars, animVars, trapVars,
                 fldVars, bnrVars, scrVars>>

FormSpecInit ==
    ThrOff /\ DebOff /\ BttOff /\ FaqOff /\ NavOff /\ ValOff /\ FormInit /\ LazyOff
    /\ AppOff /\ AnimOff /\ TrapOff
    /\ FldOff /\ BnrOff /\ ScrOff

SpecForm == FormSpecInit /\ [][FormNext]_vars

\* C6. Whenever a submission of a valid form is pending the submit control is
\* disabled, and once a submission has completed, with success or with
\* failure, the control is enabled again: it is disabled exactly while a
\* submission is pending.
C6_DisabledExactlyWhilePending == formBtn.disabled <=> formPending # <<>>

\* C22. Whenever no submission of the form is pending, the submit control is
\* enabled and shows the label it had before the first submission, whatever
\* the order of submit events and completions, a submit event during a
\* pending submission included.
C22_IdleButtonEnabledWithPageLabel ==
    formPending = <<>> => formBtn = [disabled |-> FALSE, label |-> LABEL_PAGE]

\* The fields that fail a rule, said with the rule chain alone.
FormInvalid(fields) == {i \in DOMAIN fields : FailedRule(fields[i]) # ""}

\* C8. A submit event on a form with an invalid field validates every field,
\* moves focus to the first invalid field and starts no submission: the
\* submit control, the waiting submissions and the banners stay as they were.
C8_InvalidSubmitAborts ==
    [][(formLast' = "submit" /\ FormInvalid(formFields) # {}) =>
        /\ \A i \in 1..NumFields :
            /\ formFields'[i].error <=> i \in FormInvalid(formFields)
            /\ formFields'[i].errorElement =>
                    formFields'[i].message = FailedRule(formFields[i])
        /\ formFocus' \in FormInvalid(formFields)
        /\ \A j \in FormInvalid(formFields) : formFocus' <= j
        /\ UNCHANGED <<formBtn, formPending, formBanners>>]_vars

\* A submit event found every field invalid, the later ones too, and put
\* focus on the first field; the button is enabled, nothing is waiting.
C8_Witness ==
    /\ formLast = "submit"
    /\ \A i \in 1..NumFields : formFields[i].error
    /\ formFields[NumFields].value # <<>>
    /\ formFocus = 1
    /\ ~formBtn.disabled
    /\ formPending = <<>>

\* ------------------------------------------------------------------------
\* One field of a form and its listeners (lines 367-388, 451-496)
\* ------------------------------------------------------------------------
\* The field's blur listener, its debounced input listener, and what
\* handleSubmit does to it; the form's other fields appear only as whether
\* they are valid when the form is submitted. Timers carry no clock.

\* The mutation of InputHandler: the field is validated whatever it shows.
InputHandlerAlways(f) == ValidateField(f).field

\* The debounced input listener's body (lines 377-379)
InputHandler(f) == IF f.error THEN ValidateField(f).field ELSE f

FldInit ==
    /\ \E type \in FieldTypes, required \in BOOLEAN, errorElement \in BOOLEAN :
        fld = Field(type, required, <<>>, errorElement)
    /\ FldNew

\* The user puts the cursor into the field and changes its value: an input
\* event, which calls the debounced listener (lines 376-380).
FldType(v) ==
    /\ v # fld.value
    /\ fld' = [fld EXCEPT !.value = v]
    /\ fldInput' = TRUE
    /\ fldFocus' = TRUE
    /\ fldLast' = "input"
    /\ fldLastMarked' = fld.error
    /\ UNCHANGED fldSubmitting

\* The debounced listener's timer fires; later() runs the listener's body.
FldInputTimer ==
    /\ fldInput
    /\ fldInput' = FALSE
    /\ fld' = InputHandler(fld)
    /\ fldLast' = "inputTimer"
    /\ fldLastMarked' = fld.error
    /\ UNCHANGED <<fldFocus, fldSubmitting>>

\* The field loses focus (lines 372-374).
FldBlur ==
    /\ fldFocus
    /\ fld' = ValidateField(fld).field
    /\ fldFocus' = FALSE
    /\ fldLast' = "blur"
    /\ fldLastMarked' = fld.error
    /\ UNCHANGED <<fldInput, fldSubmitting>>

\* A submit event: handleSubmit validates the field (lines 456-460). When
\* the field and the others are valid a submission starts; when not, focus
\* goes to the first field that shows an error, this one (here) or another.
FldSubmit(othersValid, here) ==
    /\ ~fldSubmitting
    /\ fld' = ValidateField(fld).field
    /\ fldLast' = "submit"
    /\ fldLastMarked' = fld.error
    /\ IF ValidateField(fld).isValid /\ othersValid
       THEN fldSubmitting' = TRUE /\ ~here /\ UNCHANGED fldFocus
       ELSE /\ fldSubmitting' = FALSE
            /\ here => ~ValidateField(fld).isValid
            /\ ~here => ~othersValid
            /\ fldFocus' = here
    /\ UNCHANGED fldInput

\* The submission is over and form.reset() (line 486) gives the field its
\* default value; classes and pending timers are untouched.
FldReset ==
    /\ fldSubmitting
    /\ fldSubmitting' = FALSE
    /\ fld' = [fld EXCEPT !.value = <<>>]
    /\ fldLast' = "reset"
    /\ fldLastMarked' = fld.error
    /\ UNCHANGED <<fldInput, fldFocus>>

FldNext ==
    /\ \/ \E v \in FieldValues(fld.type) : FldType(v)
       \/ FldInputTimer
       \/ FldBlur
       \/ \E othersValid \in BOOLEAN, here \in BOOLEAN : FldSubmit(othersValid, here)
       \/ FldReset
    /\ UNCHANGED <<thrVars, debVars, bttVars, faqVars, navVars, valVars, formVars,
                   lazyVars, appVars, animVars, trapVars, bnrVars,
                   scrVars>>

FldSpecInit ==
    ThrOff /\ DebOff /\ BttOff /\ FaqOff /\ NavOff /\ ValOff /\ FormOff /\ LazyOff
    /\ AppOff /\ AnimOff /\ TrapOff
    /\ FldInit /\ BnrOff /\ ScrOff

SpecField == FldSpecInit /\ [][FldNext]_vars

\* A field's validation state: its class 'error', its aria-invalid, and its
\* error element's text and class 'visible'.
ErrorDisplay(f) == <<f.error, f.ariaInvalid, f.message, f.visible>>

\* C18. An input event on a field that is not marked invalid, and the run of
\* the debounced input handler when the field is not marked invalid at that
\* moment, leave the field's validation state as it was: no error appears
\* through typing.
C18_InputNeverShowsNewError ==
    [][(fldLast' \in {"input", "inputTimer"} /\ ~fld.error) =>
            ErrorDisplay(fld') = ErrorDisplay(fld)]_vars

\* The debounced input handler ran on the field while it held an invalid
\* value and showed no error: it still shows none.
C18_Witness ==
    /\ fldLast = "inputTimer"
    /\ ~fldLastMarked
    /\ ~fldInput
    /\ fld.value # <<>>
    /\ FailedRule(fld) # ""
    /\ ErrorDisplay(fld) = <<FALSE, FALSE, "", FALSE>>

\* The step is a validation pass on the field: a blur, a submit event, or
\* the input handler finding the field marked invalid.
ValidationPass ==
    \/ fldLast' \in {"blur", "submit"}
    \/ fldLast' = "inputTimer" /\ fld.error

\* C19 as stated: after every validation pass the field carries the error
\* class, aria-invalid and a visible message if and only if the pass
\* returned invalid; after a pass that returned valid it carries none of them.
C19_MarkedIffInvalid ==
    [][ValidationPass =>
            IF FailedRule(fld) # ""
            THEN ErrorDisplay(fld') = <<TRUE, TRUE, FailedRule(fld), TRUE>>
            ELSE ErrorDisplay(fld') = <<FALSE, FALSE, "", FALSE>>]_vars

\* C19, amended: after every validation pass the field carries the error
\* class and aria-invalid if and only if the pass returned invalid, and the
\* message is visible if and only if the pass returned invalid and the page
\* has the field's error element; after a pass that returned valid the field
\* carries no marker and no message.
C19_MarkedIffInvalidMessageIfElement ==
    [][ValidationPass =>
            IF FailedRule(fld) # ""
            THEN ErrorDisplay(fld') =
                    IF fld.errorElement
                    THEN <<TRUE, TRUE, FailedRule(fld), TRUE>>
                    ELSE <<TRUE, TRUE, "", FALSE>>
            ELSE ErrorDisplay(fld') = <<FALSE, FALSE, "", FALSE>>]_vars

\* The input handler validated a field that was marked invalid and now holds
\* a valid value: the marker and the message are gone.
C19_Witness ==
    /\ fldLast = "inputTimer"
    /\ fldLastMarked
    /\ fld.errorElement
    /\ fld.value # <<>>
    /\ FailedRule(fld) = ""
    /\ ErrorDisplay(fld) = <<FALSE, FALSE, "", FALSE>>

\* ------------------------------------------------------------------------
\* LazyLoader (lines 290-349)
\* ------------------------------------------------------------------------
\* The observer (the platform's IntersectionObserver) queues an entry for an
\* observed target whenever the target's isIntersecting changes, the first
\* time it is computed included, and later runs the callback once with all
\* the entries queued since the last run. One run can so hold several entries
\* of one target.

\* loadImage(img), lines 329-341, up to the assignment that starts the fetch
LoadImage(img) == [img EXCEPT !.attempts = @ + 1, !.inFlight = @ + 1]

\* observer.unobserve(img)
Unobserve(img) == [img EXCEPT !.observed = FALSE]

\* handleIntersect(entries), lines 318-326: entries.forEach, in order
RECURSIVE HandleIntersect(_, _)
HandleIntersect(images, entries) ==
    IF entries = <<>> THEN images
    ELSE LET e == Head(entries)
         IN  HandleIntersect(
                 IF e.isIntersecting
                 THEN [images EXCEPT ![e.target] = Unobserve(LoadImage(@))]
                 ELSE images,
                 Tail(entries))

LazyInit == lazySupported \in BOOLEAN /\ LazyNew

\* The observer finds that observed image i now intersects (b) or no longer
\* does (~b), and queues an entry.
LazyIntersectionChange(i, b) ==
    /\ lazySupported
    /\ lazyImages[i].observed
    /\ lazySeen[i] # (IF b THEN "in" ELSE "out")
    /\ Len(lazyQueue) < MaxQueue
    /\ lazySeen' = [lazySeen EXCEPT ![i] = IF b THEN "in" ELSE "out"]
    /\ lazyQueue' = Append(lazyQueue, [target |-> i, isIntersecting |-> b])
    /\ UNCHANGED <<lazySupported, lazyImages>>

\* The observer runs the callback with the queued entries.
LazyNotify ==
    /\ lazyQueue # <<>>
    /\ lazyImages' = HandleIntersect(lazyImages, lazyQueue)
    /\ lazyQueue' = <<>>
    /\ UNCHANGED <<lazySupported, lazySeen>>

\* A load in flight ends: imageLoader.onload (lines 332-337) marks the image
\* loaded; imageLoader.onerror rejects the promise and leaves the image as it is.
LazyLoadEnds(i, ok) ==
    /\ lazyImages[i].inFlight > 0
    /\ lazyImages' = [lazyImages EXCEPT ![i].inFlight = @ - 1,
                                        ![i].loaded = @ \/ ok]
    /\ UNCHANGED <<lazySupported, lazySeen, lazyQueue>>

LazyNext ==
    /\ \/ \E i \in 1..NumImages, b \in BOOLEAN : LazyIntersectionChange(i, b)
       \/ LazyNotify
       \/ \E i \in 1..NumImages, ok \in BOOLEAN : LazyLoadEnds(i, ok)
    /\ UNCHANGED <<thrVars, debVars, bttVars, faqVars, navVars, valVars, formVars,
                 appVars, animVars, trapVars,
                 fldVars, bnrVars, scrVars>>

LazySpecInit ==
    ThrOff /\ DebOff /\ BttOff /\ FaqOff /\ NavOff /\ ValOff /\ FormOff /\ LazyInit
    /\ AppOff /\ AnimOff /\ TrapOff
    /\ FldOff /\ BnrOff /\ ScrOff

SpecLazy == LazySpecInit /\ [][LazyNext]_vars

\* C9. Whatever the observer reports, the same image intersecting more than
\* once included, at most one load attempt is started per image, and an image
\* whose load has begun is no longer observed.
C9_AtMostOneLoadAttempt ==
    \A i \in 1..NumImages :
        /\ lazyImages[i].attempts <= 1
        /\ lazyImages[i].attempts >= 1 => ~lazyImages[i].observed

\* ------------------------------------------------------------------------
\* App (lines 743-825)
\* ------------------------------------------------------------------------
\* The controllers App.init constructs, by their keys in this.modules.
Controllers ==
    {"navigation", "lazyLoader", "formValidator", "faq", "backToTop", "animationObserver"}

\* new Navigation() throws: init passes the navbar check (line 158) and
\* setActiveLink (lines 274-283) calls new URL(link.href) on every link; the
\* URL constructor throws a TypeError on a value that parses as no URL.
NavigationThrows(page) ==
    page.navbar /\ \E i \in DOMAIN page.hrefs : page.hrefs[i] = "none"

\* The try block of App.init (lines 757-782) and its catch: the modules set,
\* whether setupErrorHandling and setupAccessibility ran, and what was logged.
\* The constructors of the other controllers return on every page: they
\* check for their elements or loop over an empty NodeList.
Bootstrap(page) ==
    IF NavigationThrows(page)
    THEN [modules |-> {}, handlers |-> FALSE, announcer |-> FALSE, log |-> "error"]
    ELSE IF page.perf = "throws"
    THEN [modules |-> Controllers, handlers |-> FALSE, announcer |-> FALSE,
          log |-> "error"]
    ELSE [modules |-> Controllers \cup
                        (IF page.perf = "ok" THEN {"performanceMonitor"} ELSE {}),
          handlers |-> TRUE, announcer |-> TRUE, log |-> "ok"]

AppInit == appPage \in AppPages /\ AppNew

\* window.pritsApp = new App() (line 832): init runs to its await when the
\* document is still loading (lines 751-755), to its end otherwise.
AppConstruct ==
    /\ appPhase = "new"
    /\ IF appPage.readyState = "loading"
       THEN /\ appPhase' = "waiting"
            /\ UNCHANGED <<appModules, appHandlers, appAnnouncer, appLog>>
       ELSE /\ appPhase' = "done"
            /\ appModules' = Bootstrap(appPage).modules
            /\ appHandlers' = Bootstrap(appPage).handlers
            /\ appAnnouncer' = Bootstrap(appPage).announcer
            /\ appLog' = Bootstrap(appPage).log
    /\ UNCHANGED appPage

\* DOMContentLoaded resolves the promise init awaits; init runs to its end.
AppDOMContentLoaded ==
    /\ appPhase = "waiting"
    /\ appPhase' = "done"
    /\ appPage' = [appPage EXCEPT !.readyState = "interactive"]
    /\ appModules' = Bootstrap(appPage).modules
    /\ appHandlers' = Bootstrap(appPage).handlers
    /\ appAnnouncer' = Bootstrap(appPage).announcer
    /\ appLog' = Bootstrap(appPage).log

AppNext ==
    /\ AppConstruct \/ AppDOMContentLoaded
    /\ UNCHANGED <<thrVars, debVars, bttVars, faqVars, navVars, valVars, formVars,
                 lazyVars, animVars, trapVars,
                 fldVars, bnrVars, scrVars>>

AppSpecInit ==
    ThrOff /\ DebOff /\ BttOff /\ FaqOff /\ NavOff /\ ValOff /\ FormOff /\ LazyOff
    /\ AppInit /\ AnimOff /\ TrapOff
    /\ FldOff /\ BnrOff /\ ScrOff

SpecApp == AppSpecInit /\ [][AppNext]_vars

\* C11. When App.init has ended, whether or not a controller's initialization
\* failed or found its elements missing, every controller has been
\* constructed and the page-level error handlers are registered.
C11_ControllersDegradeIndependently ==
    appPhase = "done" => (Controllers \subseteq appModules /\ appHandlers)

\* ------------------------------------------------------------------------
\* AnimationObserver (lines 637-668)
\* ------------------------------------------------------------------------
\* The observer queues and delivers entries as the LazyLoader's does.

\* The mutation of AnimHandleIntersect: the target stays observed.
RECURSIVE AnimHandleIntersectKeepsObserving(_, _)
AnimHandleIntersectKeepsObserving(elements, entries) ==
    IF entries = <<>> THEN elements
    ELSE LET e == Head(entries)
         IN  AnimHandleIntersectKeepsObserving(
                 IF e.isIntersecting
                 THEN [elements EXCEPT ![e.target].fadeIn = TRUE]
                 ELSE elements,
                 Tail(entries))

\* handleIntersect(entries), lines 660-667: entries.forEach, in order;
\* classList.add('fade-in') and observer.unobserve(entry.target).
RECURSIVE AnimHandleIntersect(_, _)
AnimHandleIntersect(elements, entries) ==
    IF entries = <<>> THEN elements
    ELSE LET e == Head(entries)
         IN  AnimHandleIntersect(
                 IF e.isIntersecting
                 THEN [elements EXCEPT ![e.target].fadeIn = TRUE,
                                       ![e.target].observed = FALSE]
                 ELSE elements,
                 Tail(entries))

\* How many of the entries reach handleIntersect when their target carries
\* 'fade-in' already.
RECURSIVE AnimLateEntries(_, _)
AnimLateEntries(elements, entries) ==
    IF entries = <<>> THEN 0
    ELSE (IF elements[Head(entries).target].fadeIn THEN 1 ELSE 0)
         + AnimLateEntries(AnimHandleIntersect(elements, <<Head(entries)>>),
                           Tail(entries))

AnimInit == animSupported \in BOOLEAN /\ AnimNew

\* The observer finds that observed element i now intersects (b) or no
\* longer does (~b), and queues an entry.
AnimIntersectionChange(i, b) ==
    /\ animSupported
    /\ animElements[i].observed
    /\ animSeen[i] # (IF b THEN "in" ELSE "out")
    /\ Len(animQueue) < MaxQueue
    /\ animSeen' = [animSeen EXCEPT ![i] = IF b THEN "in" ELSE "out"]
    /\ animQueue' = Append(animQueue, [target |-> i, isIntersecting |-> b])
    /\ UNCHANGED <<animSupported, animElements, animLate>>

\* The observer runs the callback with the queued entries.
AnimNotify ==
    /\ animQueue # <<>>
    /\ animElements' = AnimHandleIntersect(animElements, animQueue)
    /\ animLate' = AnimLateEntries(animElements, animQueue)
    /\ animQueue' = <<>>
    /\ UNCHANGED <<animSupported, animSeen>>

AnimNext ==
    /\ \/ \E i \in 1..NumAnimated, b \in BOOLEAN : AnimIntersectionChange(i, b)
       \/ AnimNotify
    /\ UNCHANGED <<thrVars, debVars, bttVars, faqVars, navVars, valVars, formVars,
                 lazyVars, appVars, trapVars,
                 fldVars, bnrVars, scrVars>>

AnimSpecInit ==
    ThrOff /\ DebOff /\ BttOff /\ FaqOff /\ NavOff /\ ValOff /\ FormOff /\ LazyOff
    /\ AppOff /\ AnimInit /\ TrapOff
    /\ FldOff /\ BnrOff /\ ScrOff

SpecAnim == AnimSpecInit /\ [][AnimNext]_vars

\* C12. An element that carries the reveal state 'fade-in' keeps it through
\* every step, whatever the observer reports, and an element that carries it
\* is not observed.
C12_RevealOneShot ==
    [][\A i \in 1..NumAnimated :
        /\ animElements[i].fadeIn => animElements'[i].fadeIn
        /\ animElements'[i].fadeIn => ~animElements'[i].observed]_vars

\* The callback received another entry for an element after the entry that
\* revealed it, saying that it no longer intersects; the element is still
\* revealed, and another one is not.
C12_Witness ==
    /\ animLate >= 1
    /\ \E i \in 1..NumAnimated :
        /\ animElements[i].fadeIn
        /\ ~animElements[i].observed
        /\ animSeen[i] = "out"
        /\ \E j \in 1..NumAnimated : ~animElements[j].fadeIn

\* ------------------------------------------------------------------------
\* setFocusTrap on one container (lines 117-140)
\* ------------------------------------------------------------------------
\* The container's focusable elements are numbered 1..trapSize in document
\* order: they are what the selector of lines 118-120 matches, and what the
\* Tab key stops at inside the container. Every call of setFocusTrap adds one
\* keydown listener, whose firstElement is 1 and whose lastElement is
\* trapSize (both undefined when trapSize = 0). Focus 0 is outside.

\* The mutation of TrapKeydown: the Shift+Tab branch does not wrap.
TrapKeydownNoShiftWrap(ev, size, shift) ==
    IF ~shift /\ size > 0 /\ ev.focus = size
    THEN [focus |-> 1, prevented |-> TRUE]
    ELSE ev

\* One listener's run for a Tab key (lines 124-138). ev is
\* document.activeElement and whether preventDefault has been called.
TrapKeydown(ev, size, shift) ==
    IF shift
    THEN (IF size > 0 /\ ev.focus = 1
          THEN [focus |-> size, prevented |-> TRUE]
          ELSE ev)
    ELSE (IF size > 0 /\ ev.focus = size
          THEN [focus |-> 1, prevented |-> TRUE]
          ELSE ev)

\* The container's k listeners run one after the other, in the order added.
RECURSIVE TrapListenersRun(_, _, _, _)
TrapListenersRun(k, ev, size, shift) ==
    IF k = 0 THEN ev
    ELSE TrapListenersRun(k - 1, TrapKeydown(ev, size, shift), size, shift)

\* The Tab key's default action when no listener prevented it: focus moves to
\* the next (Shift: previous) element, out of the container past its ends.
TabDefault(ev, size, shift) ==
    IF ev.prevented THEN ev.focus
    ELSE IF shift THEN ev.focus - 1
    ELSE IF ev.focus < size THEN ev.focus + 1
    ELSE 0

TrapInit == trapSize \in 0..MaxFocusable /\ TrapNew

\* setFocusTrap(container) is called (openMobileMenu, line 238).
TrapInstall ==
    /\ trapListeners < MaxTraps
    /\ trapListeners' = trapListeners + 1
    /\ UNCHANGED <<trapSize, trapFocus, trapKey>>

\* Tab (Shift+Tab) is pressed while focus is on an element of the container.
TrapTab(shift) ==
    /\ trapFocus >= 1
    /\ LET ev == TrapListenersRun(trapListeners,
                                  [focus |-> trapFocus, prevented |-> FALSE],
                                  trapSize, shift)
       IN  /\ trapFocus' = TabDefault(ev, trapSize, shift)
           /\ trapKey' = [kind |-> IF shift THEN "shift" ELSE "tab",
                          from |-> trapFocus, to |-> trapFocus',
                          listeners |-> trapListeners]
    /\ UNCHANGED <<trapSize, trapListeners>>

\* Focus is put elsewhere: a click, or a call of focus().
TrapFocusMove(i) ==
    /\ i # trapFocus
    /\ trapFocus' = i
    /\ UNCHANGED <<trapSize, trapListeners, trapKey>>

TrapNext ==
    /\ \/ TrapInstall
       \/ \E shift \in BOOLEAN : TrapTab(shift)
       \/ \E i \in 0..trapSize : TrapFocusMove(i)
    /\ UNCHANGED <<thrVars, debVars, bttVars, faqVars, navVars, valVars, formVars,
                 lazyVars, appVars, animVars,
                 fldVars, bnrVars, scrVars>>

TrapSpecInit ==
    ThrOff /\ DebOff /\ BttOff /\ FaqOff /\ NavOff /\ ValOff /\ FormOff /\ LazyOff
    /\ AppOff /\ AnimOff /\ TrapInit
    /\ FldOff /\ BnrOff /\ ScrOff

SpecTrap == TrapSpecInit /\ [][TrapNext]_vars

\* C17. A Tab key pressed inside the container while at least one trap
\* listener is installed, however many there are: pressed on the last
\* focusable element it leads to the first, Shift+Tab pressed on the first
\* leads to the last, and it never leads out of the container.
C17_TabWrapsInsideContainer ==
    (trapKey.kind # "none" /\ trapKey.listeners >= 1) =>
        /\ (trapKey.kind = "tab" /\ trapKey.from = trapSize) => trapKey.to = 1
        /\ (trapKey.kind = "shift" /\ trapKey.from = 1) => trapKey.to = trapSize
        /\ trapKey.to \in 1..trapSize

\* Shift+Tab on the first of several elements led to the last, with the trap
\* installed MaxTraps times.
C17_Witness ==
    /\ trapKey.kind = "shift"
    /\ trapKey.listeners = MaxTraps
    /\ trapSize >= 2
    /\ trapKey.from = 1
    /\ trapKey.to = trapSize
    /\ trapFocus = trapSize

\* ------------------------------------------------------------------------
\* The banners of showSuccessMessage and showErrorMessage (lines 498-528)
\* ------------------------------------------------------------------------
\* The two methods are called in any order, as often as there is room on the
\* page; a removal timer carries no clock and may fire at any later step.
BnrInit == BnrOff

\* showSuccessMessage(form) or showErrorMessage(form, message) is called.
BnrShow(kind) ==
    /\ FreeSlots(bnr) # {}
    /\ bnr' = ShowBanner(bnr, kind)
    /\ bnrLast' = "show"

\* The removal timer of banner b fires.
BnrTimer(b) ==
    /\ b \in bnr.timers
    /\ bnr' = RemoveBanner(bnr, b)
    /\ bnrLast' = "timer"

BnrNext ==
    /\ \/ \E kind \in {"success", "error"} : BnrShow(kind)
       \/ \E b \in 1..MaxShown : BnrTimer(b)
    /\ UNCHANGED <<thrVars, debVars, bttVars, faqVars, navVars, valVars, formVars,
                   lazyVars, appVars, animVars, trapVars, fldVars, scrVars>>

BnrSpecInit ==
    ThrOff /\ DebOff /\ BttOff /\ FaqOff /\ NavOff /\ ValOff /\ FormOff /\ LazyOff
    /\ AppOff /\ AnimOff /\ TrapOff
    /\ FldOff /\ BnrInit /\ ScrOff

\* A due timer's callback runs: every banner's removal timer fires.
BnrFairness ==
    \A b \in 1..MaxShown :
        WF_vars(BnrTimer(b)
                /\ UNCHANGED <<thrVars, debVars, bttVars, faqVars, navVars, valVars,
                               formVars, lazyVars, appVars, animVars, trapVars, fldVars,
                              scrVars>>)

SpecBanners == BnrSpecInit /\ [][BnrNext]_vars /\ BnrFairness

\* C20. Every banner on the page has its removal timer pending, a banner
\* leaves the page only when a removal timer fires, and every banner shown is
\* eventually removed, whatever is shown meanwhile.
C20_BannersAreRemoved ==
    /\ [](\A b \in 1..MaxShown : bnr.shown[b] # "none" => b \in bnr.timers)
    /\ [][\A b \in 1..MaxShown :
            (bnr.shown[b] # "none" /\ bnr.shown'[b] # bnr.shown[b])
                => (bnrLast' = "timer" /\ bnr.shown'[b] = "none")]_vars
    /\ \A b \in 1..MaxShown : (bnr.shown[b] # "none") ~> (bnr.shown[b] = "none")

\* A success banner and, after it, an error banner were on the page together
\* with others; the first one's timer has fired and the others are still there.
C20_Witness ==
    /\ bnrLast = "timer"
    /\ bnr.shown[1] = "none"
    /\ bnr.shown[2] = "error"
    /\ \A b \in 2..MaxShown : bnr.shown[b] # "none"
    /\ bnr.timers = 2..MaxShown

\* ------------------------------------------------------------------------
\* smoothScrollTo (lines 89-111)
\* ------------------------------------------------------------------------
\* One call of smoothScrollTo and the animation frames it requests. Positions
\* and timestamps are integers; a value of ease is a fraction whose
\* denominator divides 2 * duration^2, and is kept multiplied by that number.

ScrScale(d) == 2 * d * d

\* ease(t, b, c, d) (lines 103-108), times ScrScale(d):
\*   t /= d / 2;  if (t < 1) return c / 2 * t * t + b;
\*   t--;         return -c / 2 * (t * (t - 2) - 1) + b;
\* With u = 2t/d the first branch is c/2 * u^2 + b, the second, with
\* v = u - 1 = (2t - d)/d, is -c/2 * (v * (v - 2) - 1) + b.
ease(t, b, c, d) ==
    IF 2 * t < d
    THEN 4 * c * t * t + ScrScale(d) * b
    ELSE -c * ((2 * t - d) * (2 * t - 3 * d) - d * d) + ScrScale(d) * b

\* The frame callback animation(currentTime) (lines 95-101)
Animation(a, sc, currentTime) ==
    LET startTime == IF sc.startTime = <<>> THEN currentTime ELSE sc.startTime[1]
        timeElapsed == currentTime - startTime
        distance == a.targetPosition - a.startPosition
    IN  [sc EXCEPT !.startTime = <<startTime>>,
                   !.timeElapsed = timeElapsed,
                   !.run = <<ease(timeElapsed, a.startPosition, distance, a.duration)>>,
                   !.frames = sc.frames + 1,
                   !.requested = timeElapsed < a.duration]

\* The element's top minus offset, the page's scroll position at the call,
\* and the duration.
ScrInit ==
    /\ \E targetPosition \in 0..MaxPosition, startPosition \in 0..MaxPosition,
          duration \in 1..MaxDuration :
        scrArgs = [targetPosition |-> targetPosition, startPosition |-> startPosition,
                   duration |-> duration]
    /\ scr = ScrNew
    /\ scrClock = 0

\* smoothScrollTo is called: it requests the first frame (line 110).
ScrCall ==
    /\ ~scr.called
    /\ scr' = [scr EXCEPT !.called = TRUE, !.requested = TRUE]
    /\ UNCHANGED <<scrArgs, scrClock>>

\* The browser runs the requested frame callback, gap clock units after the
\* previous frame.
ScrFrame(gap) ==
    /\ scr.requested
    /\ scrClock' = scrClock + gap
    /\ scr' = Animation(scrArgs, scr, scrClock')
    /\ UNCHANGED scrArgs

ScrNext ==
    /\ \/ ScrCall
       \/ \E gap \in 1..MaxFrameGap : ScrFrame(gap)
    /\ UNCHANGED <<thrVars, debVars, bttVars, faqVars, navVars, valVars, formVars,
                   lazyVars, appVars, animVars, trapVars, fldVars, bnrVars>>

ScrSpecInit ==
    ThrOff /\ DebOff /\ BttOff /\ FaqOff /\ NavOff /\ ValOff /\ FormOff /\ LazyOff
    /\ AppOff /\ AnimOff /\ TrapOff
    /\ FldOff /\ BnrOff /\ ScrInit

SpecScroll == ScrSpecInit /\ [][ScrNext]_vars

\* C21. After a frame has run, a further frame is requested exactly when the
\* elapsed time of that frame is below the duration, and once no frame is
\* requested the position written last is the element's top minus offset.
C21_StopsOnTarget ==
    scr.frames >= 1 =>
        /\ scr.requested <=> scr.timeElapsed < scrArgs.duration
        /\ ~scr.requested =>
                scr.run = <<ScrScale(scrArgs.duration) * scrArgs.targetPosition>>

====
